---- MODULE Spec2Model ----
(***************************************************************************)
(* debug_api_auth.py: the API authentication debugger of the MCP API       *)
(* registry.  One process run: the __main__ argument gate, then debug_api  *)
(* with its six steps.  Text is modelled as sequences of tokens, so that   *)
(* Python's substring test (`x in s`) is a test on tokens; printed output  *)
(* is the sequence `out` of lines [step, tag, args].                       *)
(***************************************************************************)
EXTENDS Integers, Sequences, FiniteSets, TLC

VARIABLES
    pc,            \* position of the process in the script
    argv,          \* sys.argv
    exitStatus,    \* -1 while running, then the process exit status
    raised,        \* name of the exception that left debug_api, "" if none
    calls,         \* external systems contacted so far, in order
    result,        \* what execute_statement produced
    api_data,      \* dict built from the first row
    auth_type,     \* local of debug_api
    secret_scope,  \* local of debug_api
    conn,          \* what connections.get produced
    bearer_token,  \* local of debug_api (meaningful only when bound)
    bound,         \* names of the locals of debug_api that have been assigned
    secrets,       \* what list_secrets produced
    issues,        \* the summary's issues list
    out            \* lines printed so far

vars == << pc, argv, exitStatus, raised, calls, result, api_data, auth_type,
           secret_scope, conn, bearer_token, bound, secrets, issues, out >>

---------------------------------------------------------------------------
\* Bounds of the model
MaxArgv == 6        \* longest sys.argv considered (program name included)
MaxTokLen == 2      \* longest bearer_token option, in tokens
MaxSecrets == 2     \* most secrets a scope lists

---------------------------------------------------------------------------
\* Values

\* Python's None, where a string is expected
None == "<None>"

SeqsUpTo(S, n) == UNION { [1..k -> S] : k \in 0..n }

Range(s) == { s[i] : i \in 1..Len(s) }

\* `t in s` for a token t of the text s
Contains(s, t) == \E i \in 1..Len(s) : s[i] = t

\* str(x) inside an f-string
Fmt(x) == IF x = None THEN "None" ELSE x

\* Python truthiness of an optional string
Truthy(x) == x # None /\ x # ""

\* x or d
OrElse(x, d) == IF Truthy(x) THEN x ELSE d

\* dict.get(k, d)
DictGet(d, k, dflt) == IF k \in DOMAIN d THEN d[k] ELSE dflt

EmptyDict == [k \in {} |-> None]

Line(step, tag, args) == [step |-> step, tag |-> tag, args |-> args]

\* the marker looked for in the bearer_token option
SecretMarker == "secret("

\* str.lower() on the tokens error texts are made of
LowerTok(t) ==
    CASE t = "Does Not Exist" -> "does not exist"
      [] t = "Scope" -> "scope"
      [] t = "PERMISSION_DENIED" -> "permission_denied"
      [] OTHER -> t

Lower(s) == [i \in 1..Len(s) |-> LowerTok(s[i])]

---------------------------------------------------------------------------
\* Inputs: the command line and what the three external systems answer

Arg(i) ==
    CASE i = 1 -> "debug_api_auth.py"
      [] i = 2 -> "abc-123"
      [] i = 3 -> "wh-1"
      [] i = 4 -> "my_catalog"
      [] i = 5 -> "my_schema"
      [] OTHER -> "extra"

Argvs == { [i \in 1..n |-> Arg(i)] : n \in 1..MaxArgv }

\* the columns the query selects, in order
Columns == << "api_id", "api_name", "connection_name", "host", "base_path",
              "api_path", "auth_type", "secret_scope", "http_method", "status" >>

AuthTypes == { "none", "api_key", "bearer_token", "oauth", None }
SecretScopes == { None, "", "scope1" }
HttpMethods == { "GET", "POST" }

Row(a, s, m) == << "abc-123", "My API", "conn1", "api.example.com", None,
                   "/v1/items", a, s, m, "active" >>

Rows == { Row(a, s, m) : a \in AuthTypes, s \in SecretScopes, m \in HttpMethods }

ErrTexts == { << "PERMISSION_DENIED" >>,
              << "Scope", "does not exist" >>,
              << "Scope", "Does Not Exist" >> }

\* execute_statement: raises, or returns a response whose result is None,
\* whose data_array is None, or whose data_array holds zero or one row
QueryOutcomes ==
    { [kind |-> "raise", err |-> e, data_array |-> << >>] : e \in ErrTexts }
    \cup { [kind |-> k, err |-> << >>, data_array |-> << >>] :
             k \in { "no_result", "no_data_array" } }
    \cup { [kind |-> "data", err |-> << >>, data_array |-> d] :
             d \in SeqsUpTo(Rows, 1) }

BearerTokens == SeqsUpTo({ SecretMarker, "tok" }, MaxTokLen)

\* the options maps a connection can carry
OptionMaps ==
    { EmptyDict, [k \in { "host" } |-> << "api.example.com" >>] }
    \cup { [k \in { "host", "bearer_token" } |->
              IF k = "host" THEN << "api.example.com" >> ELSE b] :
             b \in BearerTokens }

\* connections.get: raises, or returns a connection whose options are None
\* (has_options = FALSE) or a map
ConnOutcomes ==
    { [kind |-> "raise", err |-> e, has_options |-> FALSE,
       options |-> EmptyDict, owner |-> None] : e \in ErrTexts }
    \cup { [kind |-> "conn", err |-> << >>, has_options |-> FALSE,
            options |-> EmptyDict, owner |-> "owner1"] }
    \cup { [kind |-> "conn", err |-> << >>, has_options |-> TRUE,
            options |-> o, owner |-> "owner1"] : o \in OptionMaps }

SecretKeys == { "api_key", "bearer_token", "other_key" }

\* list_secrets: raises, or returns the keys of the scope
SecretOutcomes ==
    { [kind |-> "raise", err |-> e, keys |-> << >>] : e \in ErrTexts }
    \cup { [kind |-> "list", err |-> << >>, keys |-> ks] :
             ks \in SeqsUpTo(SecretKeys, MaxSecrets) }

NoResult == [kind |-> "unset", err |-> << >>, data_array |-> << >>]
NoConn == [kind |-> "unset", err |-> << >>, has_options |-> FALSE,
           options |-> EmptyDict, owner |-> None]
NoSecrets == [kind |-> "unset", err |-> << >>, keys |-> << >>]

---------------------------------------------------------------------------
Init ==
    /\ pc = "start"
    /\ argv \in Argvs
    /\ exitStatus = -1
    /\ raised = ""
    /\ calls = << >>
    /\ result = NoResult
    /\ api_data = EmptyDict
    /\ auth_type = None
    /\ secret_scope = None
    /\ conn = NoConn
    /\ bearer_token = << >>
    /\ bound = {}
    /\ secrets = NoSecrets
    /\ issues = << >>
    /\ out = << >>

\* the process ends when debug_api returns: exit status 0
Return(lines) ==
    /\ out' = out \o lines
    /\ pc' = "exited"
    /\ exitStatus' = 0

---------------------------------------------------------------------------
\* __main__

\* variant: the gate only rejects too few arguments
WrongArgCount_TooFew(av) == Len(av) < 5

WrongArgCount(av) == Len(av) # 5

Usage ==
    /\ pc = "start"
    /\ WrongArgCount(argv)
    /\ out' = out \o << Line(0, "usage", << >>), Line(0, "example", << >>) >>
    /\ exitStatus' = 1
    /\ pc' = "exited"
    /\ UNCHANGED << argv, raised, calls, result, api_data, auth_type,
                    secret_scope, conn, bearer_token, bound, secrets, issues >>

api_id == argv[2]
warehouse_id == argv[3]
catalog == argv[4]
schema == argv[5]

\* debug_api is entered: banner, then the workspace client is created
Main ==
    /\ pc = "start"
    /\ ~WrongArgCount(argv)
    /\ out' = out \o << Line(0, "banner", << >>) >>
    /\ calls' = Append(calls, "WorkspaceClient")
    /\ bound' = bound \cup { "w" }
    /\ pc' = "step1"
    /\ UNCHANGED << argv, exitStatus, raised, result, api_data, auth_type,
                    secret_scope, conn, bearer_token, secrets, issues >>

---------------------------------------------------------------------------
\* Step 1: registry lookup

table_name == << catalog, ".", schema, ".", "api_http_registry" >>

NoRows(r) ==
    \/ r.kind = "no_result"
    \/ r.kind = "no_data_array"
    \/ Len(r.data_array) = 0

\* {columns[i]: row[i] for i in range(len(columns))}
ParseRow(columns, row) ==
    [c \in Range(columns) |-> row[CHOOSE i \in 1..Len(columns) : columns[i] = c]]

Step1Except(e) ==
    /\ Return(<< Line(1, "error", e) >>)
    /\ UNCHANGED << api_data, auth_type, secret_scope, bound >>

Step1NotFound ==
    /\ Return(<< Line(1, "not_found", << api_id >>),
                 Line(1, "table", table_name) >>)
    /\ UNCHANGED << api_data, auth_type, secret_scope, bound >>

Step1Found(r) ==
    LET d == ParseRow(Columns, r.data_array[1]) IN
    /\ api_data' = d
    /\ auth_type' = DictGet(d, "auth_type", None)
    /\ secret_scope' = DictGet(d, "secret_scope", None)
    /\ bound' = bound \cup { "result", "api_data", "connection_name",
                             "auth_type", "secret_scope" }
    /\ out' = out \o
         << Line(1, "found", << >>),
            Line(1, "name", << Fmt(DictGet(d, "api_name", None)) >>),
            Line(1, "connection", << Fmt(DictGet(d, "connection_name", None)) >>),
            Line(1, "auth_type", << Fmt(DictGet(d, "auth_type", None)) >>),
            Line(1, "secret_scope",
                 << OrElse(DictGet(d, "secret_scope", None), "None") >>),
            Line(1, "status", << Fmt(DictGet(d, "status", None)) >>),
            Line(1, "endpoint",
                 << Fmt(DictGet(d, "host", None)),
                    OrElse(DictGet(d, "base_path", None), ""),
                    Fmt(DictGet(d, "api_path", None)) >>) >>
    /\ pc' = "step2"
    /\ UNCHANGED exitStatus

Step1 ==
    /\ pc = "step1"
    /\ \E r \in QueryOutcomes :
         /\ calls' = Append(calls, "execute_statement")
         /\ result' = r
         /\ IF r.kind = "raise" THEN Step1Except(r.err)
            ELSE IF NoRows(r) THEN Step1NotFound
            ELSE Step1Found(r)
    /\ UNCHANGED << argv, raised, conn, bearer_token, secrets, issues >>

---------------------------------------------------------------------------
\* Step 2: connection lookup

connection_name == DictGet(api_data, "connection_name", None)

full_connection_name == << catalog, ".", schema, ".", Fmt(connection_name) >>

\* conn.options is truthy: neither None nor an empty map
HasOptions(c) == c.has_options /\ DOMAIN c.options # {}

\* the three display states of the bearer_token option
BearerTokenLine(bt) ==
    IF bt = << >> THEN Line(2, "bearer_token_empty", << >>)
    ELSE IF Contains(bt, SecretMarker)
         THEN Line(2, "bearer_token_secret_reference", << >>)
    ELSE Line(2, "bearer_token_other", bt)

\* variant: the handler prints but does not return
Step2Except_NoReturn(e) ==
    /\ out' = out \o << Line(2, "error", e),
                        Line(2, "expected_name", full_connection_name) >>
    /\ pc' = "step3"
    /\ UNCHANGED << exitStatus, bearer_token, bound >>

Step2Except(e) ==
    /\ Return(<< Line(2, "error", e),
                 Line(2, "expected_name", full_connection_name) >>)
    /\ UNCHANGED << bearer_token, bound >>

Step2Found(c) ==
    LET hdr == << Line(2, "exists", full_connection_name),
                  Line(2, "host", IF HasOptions(c)
                                  THEN DictGet(c.options, "host", << "None" >>)
                                  ELSE << "N/A" >>),
                  Line(2, "base_path", IF HasOptions(c)
                                       THEN DictGet(c.options, "base_path", << "None" >>)
                                       ELSE << "N/A" >>),
                  Line(2, "owner", << Fmt(c.owner) >>) >>
        bt == DictGet(c.options, "bearer_token", << "NOT_SET" >>)
    IN
    /\ IF HasOptions(c)
       THEN /\ bearer_token' = bt
            /\ bound' = bound \cup { "conn", "bearer_token" }
            /\ out' = out \o hdr \o << BearerTokenLine(bt) >>
       ELSE /\ bound' = bound \cup { "conn" }
            /\ out' = out \o hdr
            /\ UNCHANGED bearer_token
    /\ pc' = "step3"
    /\ UNCHANGED exitStatus

Step2 ==
    /\ pc = "step2"
    /\ \E c \in ConnOutcomes :
         /\ calls' = Append(calls, "connections.get")
         /\ conn' = c
         /\ IF c.kind = "raise" THEN Step2Except(c.err) ELSE Step2Found(c)
    /\ UNCHANGED << argv, raised, result, api_data, auth_type, secret_scope,
                    secrets, issues >>

---------------------------------------------------------------------------
\* Step 3: secret check

\* variant: the gate forgets to look at secret_scope
Step3Gate_NoScope(scope, at) == at \in { "api_key", "bearer_token" }

Step3Gate(scope, at) == Truthy(scope) /\ at \in { "api_key", "bearer_token" }

\* variant: the expected key does not follow auth_type
ExpectedKey_AlwaysApiKey(at) == "api_key"

ExpectedKey(at) == IF at = "bearer_token" THEN "bearer_token" ELSE "api_key"

\* len(secrets), one mark per secret
Count(ks) == [i \in 1..Len(ks) |-> "#"]

KeyReport(expected_key, secret_keys) ==
    IF Contains(secret_keys, expected_key)
    THEN << Line(3, "key_found", << expected_key >>) >>
    ELSE << Line(3, "key_not_found", << expected_key >>),
            Line(3, "available_keys", secret_keys) >>

Step3Listed(s) ==
    out' = out \o << Line(3, "checking", << >>),
                     Line(3, "scope_exists", << secret_scope >>),
                     Line(3, "number_of_secrets", Count(s.keys)) >>
               \o KeyReport(ExpectedKey(auth_type), s.keys)

Step3Except(e) ==
    out' = out \o << Line(3, "checking", << >>), Line(3, "error", e) >>
               \o IF Contains(Lower(e), "does not exist")
                  THEN << Line(3, "scope_missing", << secret_scope >>),
                          Line(3, "create_scope", << secret_scope >>) >>
                  ELSE << >>

Step3Skipped ==
    out' = out \o << Line(3, "skipped", << Fmt(auth_type) >>) >>

Step3 ==
    /\ pc = "step3"
    /\ IF Step3Gate(secret_scope, auth_type)
       THEN \E s \in SecretOutcomes :
              /\ calls' = Append(calls, "list_secrets")
              /\ secrets' = s
              /\ IF s.kind = "raise" THEN Step3Except(s.err) ELSE Step3Listed(s)
       ELSE /\ Step3Skipped
            /\ UNCHANGED << calls, secrets >>
    /\ pc' = "step4"
    /\ UNCHANGED << argv, exitStatus, raised, result, api_data, auth_type,
                    secret_scope, conn, bearer_token, bound, issues >>

---------------------------------------------------------------------------
\* Step 4: connectivity test (never performed)

Step4 ==
    /\ pc = "step4"
    /\ out' = out \o << Line(4, "testing", << >>), Line(4, "skipping", << >>) >>
    /\ pc' = "step5"
    /\ UNCHANGED << argv, exitStatus, raised, calls, result, api_data,
                    auth_type, secret_scope, conn, bearer_token, bound,
                    secrets, issues >>

---------------------------------------------------------------------------
\* Step 5: test SQL

SqlHead(fcn, method, path) ==
    << "SELECT http_request(", "conn => '" >> \o fcn \o
    << "'", "method => '", Fmt(method), "'", "path => '", Fmt(path), "'" >>

SqlTail == << "headers => map('Accept', 'application/json')", ");" >>

\* variant: the bearer_token statement passes the secret in params too
TestSql_BearerWithSecret(at, fcn, method, path, scope) ==
    IF at = "none" THEN SqlHead(fcn, method, path) \o SqlTail
    ELSE IF at = "api_key"
         THEN SqlHead(fcn, method, path) \o
              << "params => map(", "'api_key'", SecretMarker, "'", Fmt(scope),
                 "', 'api_key')", "'param1', 'value1'", ")" >> \o SqlTail
    ELSE IF at = "bearer_token"
         THEN SqlHead(fcn, method, path) \o
              << "params => map(", "'bearer_token'", SecretMarker, "'", Fmt(scope),
                 "', 'bearer_token')", "'param1', 'value1'", ")" >> \o SqlTail
    ELSE << >>

\* variant: the statement without params is the fallback of the chain
TestSql_ElseNone(at, fcn, method, path, scope) ==
    IF at = "api_key"
    THEN SqlHead(fcn, method, path) \o
         << "params => map(", "'api_key'", SecretMarker, "'", Fmt(scope),
            "', 'api_key')", "'param1', 'value1'", ")" >> \o SqlTail
    ELSE IF at = "bearer_token"
         THEN SqlHead(fcn, method, path) \o
              << "params => map(", "'param1', 'value1'", ")" >> \o SqlTail
    ELSE SqlHead(fcn, method, path) \o SqlTail

\* the statement printed for auth_type, << >> when none is printed
TestSql(at, fcn, method, path, scope) ==
    IF at = "none" THEN SqlHead(fcn, method, path) \o SqlTail
    ELSE IF at = "api_key"
         THEN SqlHead(fcn, method, path) \o
              << "params => map(", "'api_key'", SecretMarker, "'", Fmt(scope),
                 "', 'api_key')", "'param1', 'value1'", ")" >> \o SqlTail
    ELSE IF at = "bearer_token"
         THEN SqlHead(fcn, method, path) \o
              << "params => map(", "'param1', 'value1'", ")" >> \o SqlTail
    ELSE << >>

Step5 ==
    LET stmt == TestSql(auth_type, full_connection_name,
                        DictGet(api_data, "http_method", None),
                        DictGet(api_data, "api_path", None), secret_scope)
    IN
    /\ pc = "step5"
    /\ out' = out \o << Line(5, "generated", << >>), Line(5, "sql_open", << >>) >>
                  \o (IF stmt = << >> THEN << >> ELSE << Line(5, "sql", stmt) >>)
                  \o << Line(5, "sql_close", << >>) >>
    /\ pc' = "summary"
    /\ UNCHANGED << argv, exitStatus, raised, calls, result, api_data,
                    auth_type, secret_scope, conn, bearer_token, bound,
                    secrets, issues >>

---------------------------------------------------------------------------
\* Step 6: summary

\* the branches of the summary that read the local bearer_token
ReadsBearerToken(at) == at \in { "api_key", "bearer_token", "none" }

\* what the connection should have, printed before the comparison
ShouldHave(at) ==
    IF at = "api_key" THEN << Line(6, "expect_api_key", << >>) >>
    ELSE IF at = "bearer_token" THEN << Line(6, "expect_bearer_token", << >>) >>
    ELSE IF at = "none" THEN << Line(6, "expect_none", << >>) >>
    ELSE << >>

\* variant: a failed secret check is counted as an issue
SummaryIssues_WithSecretCheck(at, bt) ==
    (IF at \in { "api_key", "none" } /\ bt # << >>
     THEN << "Connection has non-empty bearer_token" >>
     ELSE IF at = "bearer_token" /\ ~Contains(bt, SecretMarker)
     THEN << "Connection doesn't reference secret for bearer_token auth" >>
     ELSE << >>)
    \o (IF secrets.kind = "raise"
           \/ (secrets.kind = "list"
               /\ ~Contains(secrets.keys,
                            IF at = "bearer_token" THEN "bearer_token" ELSE "api_key"))
        THEN << "Secret not configured" >>
        ELSE << >>)

SummaryIssues(at, bt) ==
    IF at = "api_key"
    THEN (IF bt # << >>
          THEN << "Connection has non-empty bearer_token for api_key auth" >>
          ELSE << >>)
    ELSE IF at = "bearer_token"
    THEN (IF ~Contains(bt, SecretMarker)
          THEN << "Connection doesn't reference secret for bearer_token auth" >>
          ELSE << >>)
    ELSE IF at = "none"
    THEN (IF bt # << >>
          THEN << "Connection has non-empty bearer_token for public API (should be empty string)" >>
          ELSE << >>)
    ELSE << >>

Verdict(is) ==
    IF is # << >>
    THEN << Line(6, "issues_found", << >>) >>
         \o [i \in 1..Len(is) |-> Line(6, "issue", << is[i] >>)]
    ELSE << Line(6, "looks_correct", << >>) >>

\* reading a local that was never assigned: UnboundLocalError leaves
\* debug_api uncaught, the interpreter prints the traceback and exits 1
SummaryRaises ==
    /\ out' = out \o << Line(6, "summary", << >>) >> \o ShouldHave(auth_type)
    /\ issues' = << >>
    /\ raised' = "UnboundLocalError"
    /\ exitStatus' = 1
    /\ pc' = "exited"

SummaryReturns ==
    LET is == SummaryIssues(auth_type, bearer_token) IN
    /\ issues' = is
    /\ Return(<< Line(6, "summary", << >>) >> \o ShouldHave(auth_type)
              \o Verdict(is) \o << Line(6, "end", << >>) >>)
    /\ UNCHANGED raised

Summary ==
    /\ pc = "summary"
    /\ IF ReadsBearerToken(auth_type) /\ "bearer_token" \notin bound
       THEN SummaryRaises
       ELSE SummaryReturns
    /\ UNCHANGED << argv, calls, result, api_data, auth_type, secret_scope,
                    conn, bearer_token, bound, secrets >>

---------------------------------------------------------------------------
Next ==
    \/ Usage
    \/ Main
    \/ Step1
    \/ Step2
    \/ Step3
    \/ Step4
    \/ Step5
    \/ Summary

Spec == Init /\ [][Next]_vars

---------------------------------------------------------------------------
\* Vocabulary of the properties

\* the tokens of t occur in s, one after the other
HasSubseq(s, t) ==
    \E i \in 0..(Len(s) - Len(t)) : \A j \in 1..Len(t) : s[i + j] = t[j]

Said(step, tag) == \E i \in 1..Len(out) : out[i].step = step /\ out[i].tag = tag

SaidLine(l) == \E i \in 1..Len(out) : out[i] = l

HasStep(step) == \E i \in 1..Len(out) : out[i].step = step

Called(c) == \E i \in 1..Len(calls) : calls[i] = c

TimesCalled(c) == Cardinality({ i \in 1..Len(calls) : calls[i] = c })

Exited == pc = "exited"

QueryGaveRow == result.kind = "data" /\ Len(result.data_array) >= 1

QueryFailed == result.kind \in { "raise", "no_result", "no_data_array" }
               \/ (result.kind = "data" /\ Len(result.data_array) = 0)

KnownAuth == { "none", "api_key", "bearer_token" }

\* the bearer_token option as the connection carries it
OptionPresent(c) == c.has_options /\ "bearer_token" \in DOMAIN c.options

\* the option does not have the shape auth_type expects
ViolatesShape(at, c) ==
    CASE at \in { "api_key", "none" } ->
           ~(OptionPresent(c) /\ c.options["bearer_token"] = << >>)
      [] at = "bearer_token" ->
           ~(OptionPresent(c) /\ Contains(c.options["bearer_token"], SecretMarker))
      [] OTHER -> FALSE

Statements == { out[i].args : i \in { j \in 1..Len(out) : out[j].tag = "sql" } }

---------------------------------------------------------------------------
\* C1: no error propagates out of debug_api: a run started with four
\* arguments always ends by returning normally, with exit status 0.
C1_NoErrorPropagates ==
    (Exited /\ Len(argv) = 5) => (raised = "" /\ exitStatus = 0)

\* C2: fail-fast at steps 1 and 2.  When the query yields no row or throws,
\* the run is over with no output of steps 2-6 and neither the connection
\* registry nor the secret store contacted; when the connection lookup
\* throws, the run is over with no output of steps 3-6 and the secret store
\* not contacted.  The connection lookup happens only after the query gave a
\* row, and steps 3-6 only after the lookup succeeded.
C2_FailFast ==
    /\ QueryFailed =>
         /\ Exited /\ exitStatus = 0
         /\ \A n \in 2..6 : ~HasStep(n)
         /\ ~Called("connections.get") /\ ~Called("list_secrets")
    /\ conn.kind = "raise" =>
         /\ Exited /\ exitStatus = 0
         /\ \A n \in 3..6 : ~HasStep(n)
         /\ ~Called("list_secrets")
    /\ (Called("connections.get") \/ HasStep(2)) => QueryGaveRow
    /\ (Called("list_secrets") \/ \E n \in 3..6 : HasStep(n)) => conn.kind = "conn"

C2_Witness == Exited /\ conn.kind = "raise" /\ Said(2, "expected_name")

\* C3: a failure of the secret listing is advisory: the error is reported
\* and the run still prints steps 4, 5 and the summary, ending with exactly
\* one verdict.
C3_Step3FailureAdvisory ==
    (Exited /\ secrets.kind = "raise") =>
        /\ Said(3, "error")
        /\ Said(4, "testing") /\ Said(5, "generated") /\ Said(6, "summary")
        /\ Said(6, "issues_found") # Said(6, "looks_correct")

\* C4: in a run that passes step 2 the secret store is contacted exactly
\* when secret_scope is set and auth_type is api_key or bearer_token;
\* otherwise the run prints that the step is skipped, with auth_type.  The
\* secret store is contacted at most once.
C4_Step3Gating ==
    LET gate == secret_scope # None /\ secret_scope # ""
                /\ auth_type \in { "api_key", "bearer_token" }
    IN
    /\ TimesCalled("list_secrets") <= 1
    /\ ~HasStep(3) => ~Called("list_secrets")
    /\ (Exited /\ conn.kind = "conn") => HasStep(3)
    /\ HasStep(3) =>
         /\ Called("list_secrets") <=> gate
         /\ Said(3, "skipped") <=> ~gate
         /\ ~gate => SaidLine(Line(3, "skipped", << Fmt(auth_type) >>))

C4_Witness ==
    Exited /\ Called("list_secrets") /\ secret_scope = "scope1"
    /\ auth_type = "bearer_token"

\* C5: in a run that reaches the summary the issues list is non-empty exactly
\* when the connection's bearer_token option violates the shape auth_type
\* expects (not the empty string for api_key and none, no secret reference
\* for bearer_token).
C5_SummaryVerdict ==
    (Exited /\ Said(6, "summary")) =>
        /\ (issues # << >>) <=> ViolatesShape(auth_type, conn)
        /\ Said(6, "issues_found") <=> ViolatesShape(auth_type, conn)
        /\ Said(6, "looks_correct") <=> ~ViolatesShape(auth_type, conn)

\* C6: step 5 prints one statement shaped by auth_type: for api_key a params
\* map holding secret(<secret_scope>, 'api_key'); for bearer_token a params
\* map without any secret reference; for none no params clause; all three
\* with the Accept header and the record's method and path.
C6_TestSqlShape ==
    (Said(5, "sql_close") /\ auth_type \in KnownAuth) =>
        /\ Cardinality(Statements) = 1
        /\ \A st \in Statements :
             LET pos(t) == { i \in 1..Len(st) : st[i] = t }
                 ref == << SecretMarker, "'", Fmt(secret_scope), "', 'api_key')" >>
             IN
             /\ Contains(st, "headers => map('Accept', 'application/json')")
             /\ HasSubseq(st, << "method => '",
                                Fmt(DictGet(api_data, "http_method", None)), "'" >>)
             /\ HasSubseq(st, << "path => '",
                                Fmt(DictGet(api_data, "api_path", None)), "'" >>)
             /\ auth_type = "api_key" =>
                  /\ HasSubseq(st, ref)
                  /\ \E p \in pos("params => map("), q \in pos(SecretMarker),
                        r \in pos(")") : p < q /\ q < r
             /\ auth_type = "bearer_token" =>
                  /\ Contains(st, "params => map(")
                  /\ ~Contains(st, SecretMarker)
             /\ auth_type = "none" => ~Contains(st, "params => map(")

C6_Witness == Said(5, "sql") /\ auth_type = "api_key" /\ secret_scope = "scope1"

C8_ExpectedKeyReport ==
    secrets.kind = "list" =>
        LET k == IF auth_type = "bearer_token" THEN "bearer_token" ELSE "api_key"
            present == k \in Range(secrets.keys)
        IN
        /\ SaidLine(Line(3, "key_found", << k >>)) <=> present
        /\ SaidLine(Line(3, "key_not_found", << k >>)) <=> ~present
        /\ Said(3, "key_found") <=> present
        /\ Said(3, "key_not_found") <=> ~present
        /\ ~present => SaidLine(Line(3, "available_keys", secrets.keys))

C8_Witness ==
    /\ auth_type = "api_key" /\ secret_scope = "scope1"
    /\ secrets.kind = "list" /\ secrets.keys = << "other_key", "bearer_token" >>
    /\ Said(3, "key_not_found")

\* C9: how the run ends is decided by auth_type and the connection's
\* bearer_token option alone: no outcome of step 3 adds an issue, so runs
\* that differ only in the secret store's answer end with the same verdict.
C9_VerdictIgnoresSecrets ==
    (Exited /\ Said(6, "summary")) =>
        LET crash == auth_type \in KnownAuth /\ ~HasOptions(conn)
            bad == ~crash /\ ViolatesShape(auth_type, conn)
        IN
        /\ Len(issues) = IF bad THEN 1 ELSE 0
        /\ Cardinality({ i \in 1..Len(out) : out[i].tag = "issue" }) = Len(issues)
        /\ Said(6, "issues_found") <=> bad
        /\ Said(6, "looks_correct") <=> (~crash /\ ~bad)
        /\ (raised # "") <=> crash

C9_Witness ==
    /\ Exited /\ Said(6, "looks_correct")
    /\ Said(3, "key_not_found") \/ Said(3, "error")

\* C10: when auth_type is none of none, api_key, bearer_token (null
\* included), a run that passes step 2 skips step 3, prints an empty SQL
\* block, adds no issue and ends with 'Configuration looks correct',
\* whatever the connection's bearer_token is.
C10_UnknownAuthType ==
    (Exited /\ conn.kind = "conn" /\ auth_type \notin KnownAuth) =>
        /\ ~Called("list_secrets")
        /\ SaidLine(Line(3, "skipped", << Fmt(auth_type) >>))
        /\ Said(5, "sql_open") /\ Said(5, "sql_close") /\ Statements = {}
        /\ issues = << >>
        /\ Said(6, "looks_correct") /\ ~Said(6, "issues_found")
        /\ raised = "" /\ exitStatus = 0

C10_Witness ==
    /\ Exited /\ auth_type = "oauth" /\ secret_scope = "scope1"
    /\ OptionPresent(conn) /\ conn.options["bearer_token"] = << "tok" >>
    /\ Said(6, "looks_correct")

====
